---- MODULE Spec2Model ----
(***************************************************************************)
(* Model of python-scripts/analyze_trace_relationships.py: the analysis    *)
(* pass that main() runs over a data frame of span records.                *)
(*                                                                         *)
(* A data frame is a sequence of rows; a selection of a data frame         *)
(* (df[mask]) is the sequence of the selected row labels, which pandas     *)
(* keeps in frame order.  A dict is a function whose DOMAIN is its key     *)
(* set.  Only the columns the analyses branch on are kept: trace_id,       *)
(* span_id, parent_span_id and service_name.                               *)
(***************************************************************************)
EXTENDS Integers, Sequences, FiniteSets, TLC

(* ------------------------------ bounds -------------------------------- *)

MaxLen == 3

\* stands for the interpreter's recursion limit (sys.getrecursionlimit())
RecursionLimit == 6

\* rows of a frame that is analysed more than once
MaxLenTwice == 2

TraceIds == {"t1", "t2"}

SpanIds == {"a", "b", "c"}

\* service names, listed in lexicographic order
ServiceNames == <<"cart", "web">>

Services == {ServiceNames[i] : i \in DOMAIN ServiceNames}

\* the rows over the given trace ids and services; the empty string is the
\* "no parent" value of the parent_span_id column
Rows(traces, services) ==
    [trace_id : traces, span_id : SpanIds,
     parent_span_id : SpanIds \cup {""}, service_name : services]

\* the same over the given span ids
RowsOf(traces, ids, services) ==
    [trace_id : traces, span_id : ids,
     parent_span_id : ids \cup {""}, service_name : services]

SeqsUpTo(S, n) == UNION {[1..k -> S] : k \in 0..n}

VARIABLES
    df,                  \* the loaded data frame
    pc,                  \* position of main() / of the depth walk
    duplicate_span_ids,  \* analyze_span_relationships: rows with a repeated span_id
    root_spans,          \* analyze_span_relationships: rows with empty parent
    child_spans,         \* analyze_span_relationships: rows with a parent
    orphaned_spans,      \* analyze_orphaned_spans: [none, rows]
    multi_root_traces,   \* analyze_trace_structure: trace_id -> root count (> 1)
    span_to_children,    \* analyze_trace_depth: parent id -> list of child ids
    span_to_info,        \* analyze_trace_depth: span id -> info of the row
    roots_todo,          \* analyze_trace_depth: root rows the loop has yet to visit
    stack,               \* call stack of calculate_depth
    ret,                 \* value being returned by calculate_depth
    root_results,        \* analyze_trace_depth: (row, depth, breadth) of each iteration
    trace_depths,        \* analyze_trace_depth: trace_id -> depth
    trace_breadths,      \* analyze_trace_depth: trace_id -> breadth
    span_to_service,     \* analyze_cross_service_calls: span id -> service
    cross_service_calls, \* analyze_cross_service_calls: list of calls found
    pattern_counts,      \* analyze_cross_service_calls: (pair, count) series, sorted
    printed_patterns,    \* analyze_cross_service_calls: the entries printed
    todo,                \* the analyses the caller has yet to call, in order
    sort_memo,           \* the arrangements the build's sort has produced so far
    guard_fired,         \* how often the walk of this run took the branch of line 201
    previous,            \* the reports of the run before this one, if any
    traces_todo,         \* visualize_example_traces: sampled traces yet to show
    span_map,            \* visualize_example_traces: span id -> parent, in key order
    tree_roots_todo,     \* visualize_example_traces: root rows yet to print
    tree_stack,          \* call stack of print_span_tree
    printed_spans        \* the span ids printed for the trace, in print order

vars == <<df, pc, duplicate_span_ids, root_spans, child_spans, orphaned_spans,
          multi_root_traces, span_to_children, span_to_info, roots_todo, stack,
          ret, root_results, trace_depths, trace_breadths, span_to_service,
          cross_service_calls, pattern_counts, printed_patterns, todo,
          sort_memo, guard_fired, previous, traces_todo, span_map,
          tree_roots_todo, tree_stack, printed_spans>>

\* the state of visualize_example_traces
visual == <<traces_todo, span_map, tree_roots_todo, tree_stack, printed_spans>>

\* the frame and the state of the five analyses
analysed == <<df, duplicate_span_ids, root_spans, child_spans, orphaned_spans,
              multi_root_traces, span_to_children, span_to_info, roots_todo,
              stack, ret, root_results, trace_depths, trace_breadths,
              span_to_service, cross_service_calls, pattern_counts,
              printed_patterns, todo, sort_memo, guard_fired, previous>>

(* ----------------------------- helpers -------------------------------- *)

\* d[k] = v on a dict
Put(d, k, v) == [x \in (DOMAIN d) \cup {k} |-> IF x = k THEN v ELSE d[x]]

\* d.get(k, default)
Get(d, k, default) == IF k \in DOMAIN d THEN d[k] ELSE default

Max(S) == CHOOSE x \in S : \A y \in S : y <= x

Range(s) == {s[i] : i \in DOMAIN s}

\* the row labels of frame d, in frame order
Labels(d) == [i \in 1..Len(d) |-> i]

Front(s) == SubSeq(s, 1, Len(s) - 1)

\* the mask left out: every row taken for a root
RootRowsAll(d) == Labels(d)

\* df[df['parent_span_id'] == '']
RootRows(d) == SelectSeq(Labels(d), LAMBDA i : d[i].parent_span_id = "")

\* df[df['parent_span_id'] != '']
ChildRows(d) == SelectSeq(Labels(d), LAMBDA i : d[i].parent_span_id # "")

(* ------------------------------- Init --------------------------------- *)

\* lines 457-461: the analyses in the order main() calls them
MainOrder ==
    <<"analyze_span_relationships", "analyze_orphaned_spans",
      "analyze_trace_structure", "analyze_trace_depth",
      "analyze_cross_service_calls">>

\* the state of main() once read_csv has returned frame d
Loaded(d) ==
    /\ df = d
    /\ pc = Head(MainOrder)
    /\ todo = Tail(MainOrder)
    /\ sort_memo = <<>>
    /\ guard_fired = 0
    /\ previous = <<>>
    /\ duplicate_span_ids = <<>>
    /\ root_spans = <<>>
    /\ child_spans = <<>>
    /\ orphaned_spans = [none |-> TRUE, rows |-> <<>>]
    /\ multi_root_traces = <<>>
    /\ span_to_children = <<>>
    /\ span_to_info = <<>>
    /\ roots_todo = <<>>
    /\ stack = <<>>
    /\ ret = 0
    /\ root_results = <<>>
    /\ trace_depths = <<>>
    /\ trace_breadths = <<>>
    /\ span_to_service = <<>>
    /\ cross_service_calls = <<>>
    /\ pattern_counts = <<>>
    /\ printed_patterns = <<>>
    /\ traces_todo = <<>>
    /\ span_map = <<>>
    /\ tree_roots_todo = <<>>
    /\ tree_stack = <<>>
    /\ printed_spans = <<>>

\* frames of spans of one service spread over several traces
Init == \E d \in SeqsUpTo(Rows(TraceIds, {"web"}), MaxLen) : Loaded(d)

\* frames of spans of one service and one trace: the parent relation alone
InitParents == \E d \in SeqsUpTo(Rows({"t1"}, {"web"}), MaxLen) : Loaded(d)

\* frames of one trace that open with a root record and go on freely
InitRooted ==
    \E d \in SeqsUpTo(Rows({"t1"}, {"web"}), MaxLen) :
        Loaded(<<[trace_id |-> "t1", span_id |-> "a", parent_span_id |-> "",
                  service_name |-> "web"]>> \o d)

\* short frames over all traces and services
InitTwice ==
    \E d \in SeqsUpTo(Rows(TraceIds, Services), MaxLenTwice) : Loaded(d)

\* short frames of one trace over two span ids and all services
InitAnyOrder ==
    \E d \in SeqsUpTo(RowsOf({"t1"}, {"a", "b"}, Services), MaxLenTwice) :
        Loaded(d)

\* an analysis returns: the caller goes on to its next call, or is done
ReturnToCaller ==
    /\ pc' = IF todo = <<>> THEN "done" ELSE Head(todo)
    /\ todo' = IF todo = <<>> THEN <<>> ELSE Tail(todo)

\* frames of spans of one trace spread over several services
InitServices == \E d \in SeqsUpTo(Rows({"t1"}, Services), MaxLen) : Loaded(d)

(* ------------------- analyze_span_relationships ----------------------- *)

\* keep='first': the first row of each span_id is not marked
DuplicatedKeepFirst(d) ==
    SelectSeq(Labels(d),
              LAMBDA i : \E j \in 1..(i - 1) : d[j].span_id = d[i].span_id)

\* df.duplicated(subset=['span_id'], keep=False): every row whose span_id
\* occurs on another row as well
Duplicated(d) ==
    SelectSeq(Labels(d),
              LAMBDA i : \E j \in 1..Len(d) : j # i /\ d[j].span_id = d[i].span_id)

\* The percentages of the hierarchy report divide by total_spans: an empty
\* frame raises ZeroDivisionError there, after the duplicate check has run
\* and before the function returns.
analyze_span_relationships ==
    /\ pc = "analyze_span_relationships"
    /\ duplicate_span_ids' = Duplicated(df)
    /\ IF Len(df) = 0
       THEN /\ pc' = "ZeroDivisionError"
            /\ UNCHANGED <<root_spans, child_spans, todo>>
       ELSE /\ root_spans' = RootRows(df)
            /\ child_spans' = ChildRows(df)
            /\ ReturnToCaller
    /\ UNCHANGED <<df, orphaned_spans, multi_root_traces, span_to_children,
                   span_to_info, roots_todo, stack, ret, root_results,
                   trace_depths, trace_breadths, span_to_service,
                   cross_service_calls, pattern_counts, printed_patterns,
                   sort_memo, guard_fired, previous, visual>>

(* --------------------- analyze_orphaned_spans ------------------------- *)

\* set(df['span_id'].unique())
all_span_ids(d) == {d[i].span_id : i \in 1..Len(d)}

\* the parent looked for among the rows of the row's own trace only
ParentMissingInTrace(d, i) ==
    \A j \in 1..Len(d) :
        d[j].trace_id = d[i].trace_id => d[j].span_id # d[i].parent_span_id

\* the membership test inverted
ParentPresent(d, i) == d[i].parent_span_id \in all_span_ids(d)

\* the test of the loop: the row's parent_span_id is not a span_id of the frame
ParentMissing(d, i) == d[i].parent_span_id \notin all_span_ids(d)

\* the loop run over the selection another analysis left behind
OrphanRowsOfSelection(d) ==
    SelectSeq(child_spans, LAMBDA i : ParentMissing(d, i))

\* the loop over child_spans.iterrows() that appends the rows failing the test
OrphanRows(d) == SelectSeq(ChildRows(d), LAMBDA i : ParentMissing(d, i))

\* returns the orphaned frame, or None when the list stayed empty
analyze_orphaned_spans ==
    /\ pc = "analyze_orphaned_spans"
    /\ orphaned_spans' = IF Len(OrphanRows(df)) > 0
                         THEN [none |-> FALSE, rows |-> OrphanRows(df)]
                         ELSE [none |-> TRUE, rows |-> <<>>]
    /\ ReturnToCaller
    /\ UNCHANGED <<df, duplicate_span_ids, root_spans, child_spans,
                   multi_root_traces, span_to_children, span_to_info,
                   roots_todo, stack, ret, root_results, trace_depths,
                   trace_breadths, span_to_service, cross_service_calls,
                   pattern_counts, printed_patterns, sort_memo, guard_fired,
                   previous, visual>>

(* --------------------- analyze_trace_structure ------------------------ *)

\* the keys of df.groupby('trace_id')
trace_groups(d) == {d[i].trace_id : i \in 1..Len(d)}

\* trace_groups.apply(lambda x: (x['parent_span_id'] == '').sum())
root_spans_per_trace(d) ==
    [t \in trace_groups(d) |->
        Cardinality({i \in 1..Len(d) :
                        d[i].trace_id = t /\ d[i].parent_span_id = ""})]

\* the filter taken as > 0
MultiRootFromOne(d) ==
    LET per == [t \in {d[i].trace_id : i \in 1..Len(d)} |->
                  Cardinality({i \in 1..Len(d) :
                      d[i].trace_id = t /\ d[i].parent_span_id = ""})]
    IN  [t \in {u \in DOMAIN per : per[u] > 0} |-> per[t]]

\* root_spans_per_trace[root_spans_per_trace > 1]
MultiRoot(d) ==
    LET per == root_spans_per_trace(d)
    IN  [t \in {u \in DOMAIN per : per[u] > 1} |-> per[t]]

analyze_trace_structure ==
    /\ pc = "analyze_trace_structure"
    /\ multi_root_traces' = MultiRoot(df)
    /\ ReturnToCaller
    /\ UNCHANGED <<df, duplicate_span_ids, root_spans, child_spans,
                   orphaned_spans, span_to_children, span_to_info,
                   roots_todo, stack, ret, root_results, trace_depths,
                   trace_breadths, span_to_service, cross_service_calls,
                   pattern_counts, printed_patterns, sort_memo, guard_fired,
                   previous, visual>>

(* ------------------------ analyze_trace_depth ------------------------- *)

\* the span_id put in front of the list of its parent
IndexRowPrepend(acc, row) ==
    [info |-> Put(acc.info, row.span_id,
                  [trace_id |-> row.trace_id, service |-> row.service_name]),
     children |->
        IF row.parent_span_id # ""
        THEN Put(acc.children, row.parent_span_id,
                 <<row.span_id>> \o Get(acc.children, row.parent_span_id, <<>>))
        ELSE acc.children]

\* One iteration of the indexing loop over df.iterrows(): the info of the
\* row is stored under its span_id (an assignment, so a later row with the
\* same span_id replaces the earlier one) and the span_id is appended to the
\* list of its parent when the parent is non-empty.
IndexRow(acc, row) ==
    [info |-> Put(acc.info, row.span_id,
                  [trace_id |-> row.trace_id, service |-> row.service_name]),
     children |->
        IF row.parent_span_id # ""
        THEN Put(acc.children, row.parent_span_id,
                 Append(Get(acc.children, row.parent_span_id, <<>>), row.span_id))
        ELSE acc.children]

RECURSIVE IndexRows(_, _, _)
IndexRows(d, i, acc) ==
    IF i > Len(d) THEN acc ELSE IndexRows(d, i + 1, IndexRow(acc, d[i]))

BuildIndex(d) == IndexRows(d, 1, [info |-> <<>>, children |-> <<>>])

\* lines 176-216: build both maps, select the root rows, empty result dicts
analyze_trace_depth ==
    /\ pc = "analyze_trace_depth"
    /\ span_to_children' = BuildIndex(df).children
    /\ span_to_info' = BuildIndex(df).info
    /\ roots_todo' = RootRows(df)
    /\ root_results' = <<>>
    /\ trace_depths' = <<>>
    /\ trace_breadths' = <<>>
    /\ guard_fired' = 0
    /\ pc' = "for_root"
    /\ UNCHANGED <<df, duplicate_span_ids, root_spans, child_spans,
                   orphaned_spans, multi_root_traces, stack, ret,
                   span_to_service, cross_service_calls, pattern_counts,
                   printed_patterns, todo, sort_memo, previous, visual>>

\* a fresh activation of calculate_depth(span_id, visited)
Frame(span_id, visited) ==
    [span_id |-> span_id, visited |-> visited, k |-> 0, depths |-> <<>>]

\* line 222, the call: calculate_depth(span_id) with visited=None
for_root_call ==
    /\ pc = "for_root"
    /\ roots_todo # <<>>
    /\ stack' = <<Frame(df[Head(roots_todo)].span_id, {})>>
    /\ pc' = "calculate_depth"
    /\ UNCHANGED <<df, duplicate_span_ids, root_spans, child_spans,
                   orphaned_spans, multi_root_traces, span_to_children,
                   span_to_info, roots_todo, ret, root_results, trace_depths,
                   trace_breadths, span_to_service, cross_service_calls,
                   pattern_counts, printed_patterns, todo, sort_memo,
                   guard_fired, previous, visual>>

\* the guard taken on every call, the root's included
RevisitedAlways(span_id, visited) == TRUE

\* the guard left out
RevisitedNever(span_id, visited) == FALSE

\* line 200: the circular reference protection
Revisited(span_id, visited) == span_id \in visited

\* a revisited span counted as one more level
CycleDepthOne(span_id) == 1

\* line 201: what a revisited span adds to the depth of the path
CycleDepth(span_id) == 0

\* lines 197-209, entry of an activation: the guard, the leaf case, or the
\* first recursive call with a copy of the visited set
calculate_depth_enter ==
    /\ pc = "calculate_depth"
    /\ LET top == stack[Len(stack)]
           visited == top.visited \cup {top.span_id}
           children == Get(span_to_children, top.span_id, <<>>)
       IN  IF Revisited(top.span_id, top.visited)
           THEN /\ stack' = Front(stack)
                /\ ret' = CycleDepth(top.span_id)
                /\ guard_fired' = guard_fired + 1
                /\ pc' = "return"
           ELSE IF children = <<>>
           THEN /\ stack' = Front(stack)
                /\ ret' = 1
                /\ guard_fired' = guard_fired
                /\ pc' = "return"
           ELSE /\ stack' = Front(stack)
                            \o <<[top EXCEPT !.visited = visited, !.k = 1]>>
                            \o <<Frame(children[1], visited)>>
                /\ ret' = ret
                /\ guard_fired' = guard_fired
                /\ pc' = IF Len(stack) >= RecursionLimit
                         THEN "RecursionError" ELSE "calculate_depth"
    /\ UNCHANGED <<df, duplicate_span_ids, root_spans, child_spans,
                   orphaned_spans, multi_root_traces, span_to_children,
                   span_to_info, roots_todo, root_results, trace_depths,
                   trace_breadths, span_to_service, cross_service_calls,
                   pattern_counts, printed_patterns, todo, sort_memo,
                   previous, visual>>

\* the deepest child alone, the span itself not counted
DepthOfChildren(depths) == Max(Range(depths))

\* line 210: the value of an activation whose children returned `depths`
DepthOf(depths) == 1 + Max(Range(depths))

\* lines 209-210, a recursive call returns into the generator of max():
\* the next child is called, or the activation returns 1 + max
calculate_depth_resume ==
    /\ pc = "return"
    /\ stack # <<>>
    /\ LET top == stack[Len(stack)]
           children == Get(span_to_children, top.span_id, <<>>)
           depths == Append(top.depths, ret)
       IN  IF top.k < Len(children)
           THEN /\ stack' = Front(stack)
                            \o <<[top EXCEPT !.depths = depths, !.k = top.k + 1]>>
                            \o <<Frame(children[top.k + 1], top.visited)>>
                /\ ret' = ret
                /\ pc' = IF Len(stack) >= RecursionLimit
                         THEN "RecursionError" ELSE "calculate_depth"
           ELSE /\ stack' = Front(stack)
                /\ ret' = DepthOf(depths)
                /\ pc' = "return"
    /\ UNCHANGED <<df, duplicate_span_ids, root_spans, child_spans,
                   orphaned_spans, multi_root_traces, span_to_children,
                   span_to_info, roots_todo, root_results, trace_depths,
                   trace_breadths, span_to_service, cross_service_calls,
                   pattern_counts, printed_patterns, todo, sort_memo,
                   guard_fired, previous, visual>>

\* the roots of a trace added up
CombineSum(old, new) == old + new

\* lines 225-231: the first root of a trace sets its entry, a further root
\* of the same trace is combined with the entry
Combine(old, new) == IF old >= new THEN old ELSE new

Record(d, trace_id, value) ==
    IF trace_id \notin DOMAIN d
    THEN Put(d, trace_id, value)
    ELSE Put(d, trace_id, Combine(d[trace_id], value))

\* the children of the root's children counted as well
BreadthTwoLevels(children, span_id) ==
    LET own == Get(children, span_id, <<>>)
    IN  Len(own) + Cardinality({<<k, j>> \in (DOMAIN own) \X (1..MaxLen) :
                                    j <= Len(Get(children, own[k], <<>>))})

\* line 223: the number of entries of the root's list of children
Breadth(children, span_id) == Len(Get(children, span_id, <<>>))

\* lines 222-231, the root's call has returned: depth and breadth of the
\* root are recorded under its trace_id
for_root_record ==
    /\ pc = "return"
    /\ stack = <<>>
    /\ LET root == df[Head(roots_todo)]
           depth == ret
           breadth == Breadth(span_to_children, root.span_id)
       IN  /\ trace_depths' = Record(trace_depths, root.trace_id, depth)
           /\ trace_breadths' = Record(trace_breadths, root.trace_id, breadth)
           /\ root_results' = Append(root_results,
                                     [row |-> Head(roots_todo), depth |-> depth,
                                      breadth |-> breadth])
    /\ roots_todo' = Tail(roots_todo)
    /\ pc' = "for_root"
    /\ UNCHANGED <<df, duplicate_span_ids, root_spans, child_spans,
                   orphaned_spans, multi_root_traces, span_to_children,
                   span_to_info, stack, ret, span_to_service,
                   cross_service_calls, pattern_counts, printed_patterns,
                   todo, sort_memo, guard_fired, previous, visual>>

\* lines 233-257: the loop is over, the statistics are printed if any
analyze_trace_depth_report ==
    /\ pc = "for_root"
    /\ roots_todo = <<>>
    /\ ReturnToCaller
    /\ UNCHANGED <<df, duplicate_span_ids, root_spans, child_spans,
                   orphaned_spans, multi_root_traces, span_to_children,
                   span_to_info, roots_todo, stack, ret, root_results,
                   trace_depths, trace_breadths, span_to_service,
                   cross_service_calls, pattern_counts, printed_patterns,
                   sort_memo, guard_fired, previous, visual>>

(* -------------------- analyze_cross_service_calls --------------------- *)

\* a span id keeps the service of the first row that carries it
RECURSIVE ZipDictFirst(_, _, _)
ZipDictFirst(d, i, acc) ==
    IF i > Len(d) THEN acc
    ELSE ZipDictFirst(d, i + 1,
                      IF d[i].span_id \in DOMAIN acc THEN acc
                      ELSE Put(acc, d[i].span_id, d[i].service_name))

\* dict(zip(df['span_id'], df['service_name'])): the pairs are inserted in
\* frame order, so a later row with the same span_id replaces the earlier one
RECURSIVE ZipDict(_, _, _)
ZipDict(d, i, acc) ==
    IF i > Len(d) THEN acc
    ELSE ZipDict(d, i + 1, Put(acc, d[i].span_id, d[i].service_name))

\* the comparison of the two services left out
IsAnyCall(s2s, row) == row.parent_span_id \in DOMAIN s2s

\* lines 277-279: the row yields a call when its parent is a key of the map
\* and the parent's service differs from the row's own
IsCrossCall(s2s, row) ==
    /\ row.parent_span_id \in DOMAIN s2s
    /\ s2s[row.parent_span_id] # row.service_name

\* the entry appended for such a row
Call(s2s, row) ==
    [parent_service |-> s2s[row.parent_span_id],
     child_service |-> row.service_name,
     trace_id |-> row.trace_id,
     parent_span_id |-> row.parent_span_id,
     child_span_id |-> row.span_id]

\* lines 271-286: the loop over child_spans.iterrows()
RECURSIVE CrossCalls(_, _, _, _)
CrossCalls(d, s2s, rows, acc) ==
    IF rows = <<>> THEN acc
    ELSE CrossCalls(d, s2s, Tail(rows),
                    IF IsCrossCall(s2s, d[Head(rows)])
                    THEN Append(acc, Call(s2s, d[Head(rows)]))
                    ELSE acc)

\* every (parent_service, child_service) pair, in lexicographic order
AllPairs ==
    LET n == Len(ServiceNames)
    IN  [k \in 1..(n * n) |->
            [parent_service |-> ServiceNames[((k - 1) \div n) + 1],
             child_service |-> ServiceNames[((k - 1) % n) + 1]]]

\* cross_df.groupby(['parent_service', 'child_service']).size(): one entry
\* per pair that occurs, with its number of calls, in sorted key order
GroupSize(calls) ==
    LET count(p) == Cardinality({i \in 1..Len(calls) :
                        /\ calls[i].parent_service = p.parent_service
                        /\ calls[i].child_service = p.child_service})
        present == SelectSeq(AllPairs, LAMBDA p : count(p) > 0)
    IN  [k \in 1..Len(present) |->
            [parent_service |-> present[k].parent_service,
             child_service |-> present[k].child_service,
             count |-> count(present[k])]]

\* the order sort_values(ascending=False) asks for between neighbours
InOrder(x, y) == x.count >= y.count

\* .sort_values(ascending=False) with the default kind, quicksort, which is
\* not a stable sort: the result is some arrangement of the series with
\* non-increasing values, entries of equal value in no guaranteed order
SortValues(series) ==
    {q \in {[k \in 1..Len(series) |-> series[f[k]]] :
                f \in Permutations(1..Len(series))} :
        \A k \in 1..(Len(q) - 1) : InOrder(q[k], q[k + 1])}

\* the sort is a fixed algorithm of the build: a series it has arranged
\* before comes out the same way again
SortedAfresh(memo, series) == SortValues(series)

Sorted(memo, series) ==
    IF series \in DOMAIN memo THEN {memo[series]} ELSE SortValues(series)

\* pattern_counts.head(10)
TopPatterns == 10

head(s, n) == SubSeq(s, 1, IF Len(s) < n THEN Len(s) ELSE n)

analyze_cross_service_calls ==
    /\ pc = "analyze_cross_service_calls"
    /\ span_to_service' = ZipDict(df, 1, <<>>)
    /\ cross_service_calls' = CrossCalls(df, span_to_service', ChildRows(df), <<>>)
    /\ IF cross_service_calls' # <<>>
       THEN \E sorted \in Sorted(sort_memo, GroupSize(cross_service_calls')) :
                /\ pattern_counts' = sorted
                /\ printed_patterns' = head(sorted, TopPatterns)
                /\ sort_memo' = Put(sort_memo, GroupSize(cross_service_calls'),
                                    sorted)
       ELSE UNCHANGED <<pattern_counts, printed_patterns, sort_memo>>
    /\ ReturnToCaller
    /\ UNCHANGED <<df, duplicate_span_ids, root_spans, child_spans,
                   orphaned_spans, multi_root_traces, span_to_children,
                   span_to_info, roots_todo, stack, ret, root_results,
                   trace_depths, trace_breadths, guard_fired, previous, visual>>

(* -------------------- visualize_example_traces ------------------------ *)
(* The anomaly_type column is not kept: the rows of a frame are taken to   *)
(* carry one anomaly type, so that the outer loop of line 314 runs once.   *)

\* type_df['trace_id'].unique(): the trace ids in order of first appearance
unique_traces(d) ==
    LET first == SelectSeq(Labels(d),
                     LAMBDA i : \A j \in 1..(i - 1) : d[j].trace_id # d[i].trace_id)
    IN  [k \in 1..Len(first) |-> d[first[k]].trace_id]

\* df[df['trace_id'] == trace_id]
trace_spans(d, t) == SelectSeq(d, LAMBDA r : r.trace_id = t)

\* lines 329-334: (trace_id, num_services, num_spans) of every trace
trace_stats(d) ==
    LET ids == unique_traces(d)
    IN  [k \in 1..Len(ids) |->
            [trace_id |-> ids[k],
             num_services |->
                 Cardinality({r.service_name : r \in Range(trace_spans(d, ids[k]))}),
             num_spans |-> Len(trace_spans(d, ids[k]))]]

\* the sort key (x[1], x[2]) of line 337, compared as tuples
KeyLess(x, y) ==
    \/ x.num_services < y.num_services
    \/ x.num_services = y.num_services /\ x.num_spans < y.num_spans

\* list.sort(reverse=True) is stable: an entry goes behind the entries whose
\* key is not smaller
InsertStat(sorted, x) ==
    LET before == SelectSeq(sorted, LAMBDA y : ~KeyLess(y, x))
        after == SelectSeq(sorted, LAMBDA y : KeyLess(y, x))
    IN  before \o <<x>> \o after

RECURSIVE SortStats(_, _, _)
SortStats(stats, i, acc) ==
    IF i > Len(stats) THEN acc
    ELSE SortStats(stats, i + 1, InsertStat(acc, stats[i]))

\* list[:n]
Slice(list, n) == [k \in 1..(IF Len(list) < n THEN Len(list) ELSE n) |-> list[k]]

\* lines 351 and 347: at most five traces are shown
NumSamples == 5

\* lines 340-348: traces of 3+ services, else of 2+ services, else the top five
complex_traces(d) ==
    LET sorted == SortStats(trace_stats(d), 1, <<>>)
        three == SelectSeq(sorted, LAMBDA x : x.num_services >= 3)
        two == SelectSeq(sorted, LAMBDA x : x.num_services >= 2)
    IN  IF Len(three) # 0 THEN three
        ELSE IF Len(two) # 0 THEN two
        ELSE Slice(sorted, NumSamples)

\* lines 351-352
sampled_traces(d) ==
    LET top == Slice(complex_traces(d), NumSamples)
    IN  [k \in 1..Len(top) |-> top[k].trace_id]

\* lines 361-373: span_map[span['span_id']] = {...}; a dict keeps its keys in
\* the order of their first insertion, an assignment to a known key replaces
\* the value in place
SpanMapPut(m, row) ==
    LET entry == [span_id |-> row.span_id,
                  parent_span_id |-> row.parent_span_id]
    IN  IF \E k \in 1..Len(m) : m[k].span_id = row.span_id
        THEN [k \in 1..Len(m) |->
                 IF m[k].span_id = row.span_id THEN entry ELSE m[k]]
        ELSE Append(m, entry)

RECURSIVE BuildSpanMap(_, _, _)
BuildSpanMap(rows, i, acc) ==
    IF i > Len(rows) THEN acc
    ELSE BuildSpanMap(rows, i + 1, SpanMapPut(acc, rows[i]))

\* line 376: the span ids of the root rows of the trace
TreeRoots(rows) ==
    LET roots == SelectSeq(rows, LAMBDA r : r.parent_span_id = "")
    IN  [k \in 1..Len(roots) |-> roots[k].span_id]

\* line 423: [sid for sid, s in span_map.items() if s['parent_span_id'] == span_id]
TreeChildren(m, span_id) ==
    LET kept == SelectSeq(m, LAMBDA e : e.parent_span_id = span_id)
    IN  [k \in 1..Len(kept) |-> kept[k].span_id]

\* a fresh activation of print_span_tree(span_id, ...)
TreeFrame(span_id) == [span_id |-> span_id, children |-> <<>>, k |-> 0]

\* main() calls visualize_example_traces(df) after the five analyses
visualize_example_traces ==
    /\ pc = "done"
    /\ previous = <<>>
    /\ traces_todo' = sampled_traces(df)
    /\ span_map' = <<>>
    /\ tree_roots_todo' = <<>>
    /\ tree_stack' = <<>>
    /\ printed_spans' = <<>>
    /\ pc' = "for_trace"
    /\ UNCHANGED analysed

\* lines 354-380: the next sampled trace, its span_map and its root rows; a
\* trace without a root row is skipped with a warning
for_trace ==
    /\ pc = "for_trace"
    /\ IF traces_todo = <<>>
       THEN /\ pc' = "summary"
            /\ UNCHANGED visual
       ELSE LET rows == trace_spans(df, Head(traces_todo))
            IN  /\ span_map' = BuildSpanMap(rows, 1, <<>>)
                /\ printed_spans' = <<>>
                /\ tree_stack' = <<>>
                /\ IF Len(TreeRoots(rows)) = 0
                   THEN /\ tree_roots_todo' = <<>>
                        /\ traces_todo' = Tail(traces_todo)
                        /\ pc' = "for_trace"
                   ELSE /\ tree_roots_todo' = TreeRoots(rows)
                        /\ traces_todo' = traces_todo
                        /\ pc' = "for_tree_root"
    /\ UNCHANGED analysed

\* lines 432-435: print_span_tree(root['span_id']) for each root row, then the
\* total of the trace
for_tree_root ==
    /\ pc = "for_tree_root"
    /\ IF tree_roots_todo = <<>>
       THEN /\ traces_todo' = Tail(traces_todo)
            /\ pc' = "for_trace"
            /\ UNCHANGED tree_stack
       ELSE /\ tree_stack' = <<TreeFrame(Head(tree_roots_todo))>>
            /\ pc' = "print_span_tree"
            /\ UNCHANGED traces_todo
    /\ UNCHANGED <<analysed, span_map, tree_roots_todo, printed_spans>>

\* lines 383-429, entry of an activation: return for an unknown span id,
\* else print the span, collect its children and call the first one
print_span_tree_enter ==
    /\ pc = "print_span_tree"
    /\ LET top == tree_stack[Len(tree_stack)]
           children == TreeChildren(span_map, top.span_id)
       IN  IF \A k \in 1..Len(span_map) : span_map[k].span_id # top.span_id
           THEN /\ tree_stack' = Front(tree_stack)
                /\ printed_spans' = printed_spans
                /\ pc' = "tree_return"
           ELSE IF children = <<>>
           THEN /\ tree_stack' = Front(tree_stack)
                /\ printed_spans' = Append(printed_spans, top.span_id)
                /\ pc' = "tree_return"
           ELSE /\ tree_stack' = Front(tree_stack)
                        \o <<[top EXCEPT !.children = children, !.k = 1]>>
                        \o <<TreeFrame(children[1])>>
                /\ printed_spans' = Append(printed_spans, top.span_id)
                /\ pc' = IF Len(tree_stack) >= RecursionLimit
                         THEN "RecursionError" ELSE "print_span_tree"
    /\ UNCHANGED <<analysed, traces_todo, span_map, tree_roots_todo>>

\* lines 426-429, a call returns into the loop over the children: the next
\* child is called, or the activation returns; the root's call returns into
\* the loop of line 432
print_span_tree_resume ==
    /\ pc = "tree_return"
    /\ IF tree_stack = <<>>
       THEN /\ tree_roots_todo' = Tail(tree_roots_todo)
            /\ pc' = "for_tree_root"
            /\ UNCHANGED tree_stack
       ELSE LET top == tree_stack[Len(tree_stack)]
            IN  /\ IF top.k < Len(top.children)
                   THEN /\ tree_stack' = Front(tree_stack)
                                \o <<[top EXCEPT !.k = top.k + 1]>>
                                \o <<TreeFrame(top.children[top.k + 1])>>
                        /\ pc' = IF Len(tree_stack) >= RecursionLimit
                                 THEN "RecursionError" ELSE "print_span_tree"
                   ELSE /\ tree_stack' = Front(tree_stack)
                        /\ pc' = "tree_return"
                /\ UNCHANGED tree_roots_todo
    /\ UNCHANGED <<analysed, traces_todo, span_map, printed_spans>>

\* what each analysis hands back or prints
Reports ==
    [analyze_span_relationships |->
         [duplicates |-> duplicate_span_ids, roots |-> root_spans,
          children |-> child_spans],
     analyze_orphaned_spans |-> orphaned_spans,
     analyze_trace_structure |-> multi_root_traces,
     analyze_trace_depth |->
         [trace_depths |-> trace_depths, trace_breadths |-> trace_breadths],
     analyze_cross_service_calls |->
         [calls |-> cross_service_calls, pattern_counts |-> pattern_counts,
          printed |-> printed_patterns]]

\* the analyses are called once more on the same frame, in the given order;
\* every call starts from fresh locals, the frame and the build stay
Rerun(order) ==
    /\ pc = "done"
    /\ previous = <<>>
    /\ previous' = <<Reports>>
    /\ pc' = Head(order)
    /\ todo' = Tail(order)
    /\ duplicate_span_ids' = <<>>
    /\ root_spans' = <<>>
    /\ child_spans' = <<>>
    /\ orphaned_spans' = [none |-> TRUE, rows |-> <<>>]
    /\ multi_root_traces' = <<>>
    /\ span_to_children' = <<>>
    /\ span_to_info' = <<>>
    /\ roots_todo' = <<>>
    /\ stack' = <<>>
    /\ ret' = 0
    /\ root_results' = <<>>
    /\ trace_depths' = <<>>
    /\ trace_breadths' = <<>>
    /\ span_to_service' = <<>>
    /\ cross_service_calls' = <<>>
    /\ pattern_counts' = <<>>
    /\ printed_patterns' = <<>>
    /\ guard_fired' = 0
    /\ UNCHANGED <<df, sort_memo, visual>>

\* lines 457-461 executed a second time
run_again == Rerun(MainOrder)

\* the five calls of lines 457-461 in every order
Orders ==
    {[k \in 1..Len(MainOrder) |-> MainOrder[f[k]]] :
        f \in Permutations(1..Len(MainOrder))}

\* the five calls made a second time, in some other order
run_in_any_order == \E order \in Orders : Rerun(order)

Next ==
    \/ analyze_span_relationships
    \/ analyze_orphaned_spans
    \/ analyze_trace_structure
    \/ analyze_trace_depth
    \/ for_root_call
    \/ calculate_depth_enter
    \/ calculate_depth_resume
    \/ for_root_record
    \/ analyze_trace_depth_report
    \/ analyze_cross_service_calls

Spec == Init /\ [][Next]_vars

SpecServices == InitServices /\ [][Next]_vars

SpecRooted == InitRooted /\ [][Next]_vars

\* lines 456-464: the five analyses, then the example traces
NextVisualize ==
    \/ Next
    \/ visualize_example_traces
    \/ for_trace
    \/ for_tree_root
    \/ print_span_tree_enter
    \/ print_span_tree_resume

SpecVisualize == InitParents /\ [][NextVisualize]_vars

SpecVisualizeFair ==
    InitParents /\ [][NextVisualize]_vars /\ WF_vars(NextVisualize)

NextTwice ==
    \/ Next
    \/ run_again

SpecTwice == InitTwice /\ [][NextTwice]_vars

NextAnyOrder ==
    \/ Next
    \/ run_in_any_order

SpecAnyOrder == InitAnyOrder /\ [][NextAnyOrder]_vars

\* main() is one thread that runs on until it returns or raises
SpecFair == InitParents /\ [][Next]_vars /\ WF_vars(Next)

(* ===================== properties of the analyses ===================== *)

\* the rows of d that name span s as their parent
ChildRowsOf(d, s) == {i \in 1..Len(d) : d[i].parent_span_id = s}

\* the span ids of those rows
ChildIdsOf(d, s) == {d[i].span_id : i \in ChildRowsOf(d, s)}

\* the span ids reachable from the ids of `frontier` by one or more
\* parent -> child steps
RECURSIVE Closure(_, _, _)
Closure(d, frontier, seen) ==
    LET next == UNION {ChildIdsOf(d, s) : s \in frontier}
    IN  IF next \subseteq seen THEN seen
        ELSE Closure(d, next \ seen, seen \cup next)

Descendants(d, s) == Closure(d, {s}, {})

\* some span on a path from s lies on a cycle of the parent -> child relation
CycleFrom(d, s) ==
    \E n \in {s} \cup Descendants(d, s) : n \in Descendants(d, n)

\* depth(span) = 1 without children, else 1 + max over the children
RECURSIVE TreeDepth(_, _)
TreeDepth(d, s) ==
    IF ChildIdsOf(d, s) = {} THEN 1
    ELSE 1 + Max({TreeDepth(d, c) : c \in ChildIdsOf(d, s)})

\* the root rows of trace t
RootsOf(d, t) ==
    {i \in 1..Len(d) : d[i].trace_id = t /\ d[i].parent_span_id = ""}

\* analyze_trace_depth has returned
DepthDone == pc \in {"analyze_cross_service_calls", "done"}

\* C1: from the moment analyze_trace_depth starts, on any frame (cyclic
\* parent chains included) the walk comes to an end and every trace that owns
\* a root row has a depth, a number between 1 and the size of the frame.
C1_DepthWalkTerminates ==
    (pc = "analyze_trace_depth")
        ~> (/\ pc = "analyze_cross_service_calls"
            /\ \A i \in 1..Len(df) :
                  df[i].parent_span_id = ""
                      => /\ df[i].trace_id \in DOMAIN trace_depths
                         /\ trace_depths[df[i].trace_id] \in 1..Len(df))

\* a frame with a cycle below a root has been walked to the end
C1_Witness ==
    /\ pc = "analyze_cross_service_calls"
    /\ \E i \in 1..Len(df) :
          /\ df[i].parent_span_id = ""
          /\ CycleFrom(df, df[i].span_id)
          /\ df[i].trace_id \in DOMAIN trace_depths

\* C2: no frame puts the run into an error state; every analysis runs.
C2_NothingFatal == pc \notin {"ZeroDivisionError", "RecursionError"}

\* C3: a trace with exactly one root row and no cycle reachable from that
\* root is reported with the depth of the recursive definition.
C3_DepthIsTreeDepth ==
    DepthDone =>
        \A t \in TraceIds : \A i \in RootsOf(df, t) :
            (RootsOf(df, t) = {i} /\ ~CycleFrom(df, df[i].span_id))
                => /\ t \in DOMAIN trace_depths
                   /\ trace_depths[t] = TreeDepth(df, df[i].span_id)

\* the chain root -> child -> grandchild has been reported with depth 3
C3_Witness ==
    /\ pc = "done"
    /\ \E t \in TraceIds : \E i \in RootsOf(df, t) :
          /\ RootsOf(df, t) = {i}
          /\ ~CycleFrom(df, df[i].span_id)
          /\ trace_depths[t] = 3

\* the iterations of the root loop that belong to trace t
ResultsOf(t) ==
    {k \in 1..Len(root_results) : df[root_results[k].row].trace_id = t}

\* C4: the depth of a trace is the maximum of the depths computed from its
\* roots and its breadth the maximum number of rows naming one of its roots
\* as parent, whatever the order of the roots.
C4_MaxOverRoots ==
    DepthDone =>
        /\ {root_results[k].row : k \in 1..Len(root_results)}
               = {i \in 1..Len(df) : df[i].parent_span_id = ""}
        /\ \A t \in TraceIds :
              RootsOf(df, t) # {}
                  => /\ trace_depths[t]
                          = Max({root_results[k].depth : k \in ResultsOf(t)})
                     /\ trace_breadths[t]
                          = Max({Cardinality(ChildRowsOf(df, df[i].span_id)) :
                                    i \in RootsOf(df, t)})

\* a trace with two roots of different depth and breadth has been reported
C4_Witness ==
    /\ pc = "done"
    /\ \E t \in TraceIds : \E k1, k2 \in ResultsOf(t) :
          /\ root_results[k1].depth < root_results[k2].depth
          /\ root_results[k1].breadth < root_results[k2].breadth

\* the span ids that occur in frame d
IdsOf(d) == {d[i].span_id : i \in 1..Len(d)}

\* the rows of d carrying span id s
RowsWithId(d, s) == {i \in 1..Len(d) : d[i].span_id = s}

FirstRow(d, s) == CHOOSE i \in RowsWithId(d, s) : \A j \in RowsWithId(d, s) : i <= j

LastRow(d, s) == CHOOSE i \in RowsWithId(d, s) : \A j \in RowsWithId(d, s) : i >= j

\* both lookups of span id s give the data of row i
ResolvesTo(s, i) ==
    /\ span_to_info[s] = [trace_id |-> df[i].trace_id,
                          service |-> df[i].service_name]
    /\ span_to_service[s] = df[i].service_name

C6_DuplicateFinding ==
    pc # "analyze_span_relationships" =>
        /\ (duplicate_span_ids = <<>>) <=> (Cardinality(IdsOf(df)) = Len(df))
        /\ Range(duplicate_span_ids)
               = {i \in 1..Len(df) : Cardinality(RowsWithId(df, df[i].span_id)) > 1}
        /\ \A k \in 1..(Len(duplicate_span_ids) - 1) :
              duplicate_span_ids[k] < duplicate_span_ids[k + 1]

\* a frame with a repeated and a unique span id has been checked
C6_Witness ==
    /\ pc = "done"
    /\ duplicate_span_ids # <<>>
    /\ Len(duplicate_span_ids) < Len(df)

\* the rows with a non-empty parent that is the span id of no row at all
Unresolved(d) ==
    {i \in 1..Len(d) :
        /\ d[i].parent_span_id # ""
        /\ \A j \in 1..Len(d) : d[j].span_id # d[i].parent_span_id}

\* analyze_orphaned_spans has returned
OrphansDone ==
    pc \notin {"analyze_span_relationships", "ZeroDivisionError",
               "analyze_orphaned_spans"}

\* C7: the orphans are exactly the rows with a non-empty parent that no row
\* of the whole frame carries as span id, whatever the traces involved.
C7_OrphanIffUnresolved ==
    OrphansDone =>
        /\ Range(orphaned_spans.rows) = Unresolved(df)
        /\ Len(orphaned_spans.rows) = Cardinality(Unresolved(df))
        /\ orphaned_spans.none <=> (Unresolved(df) = {})

\* a parent found only under another trace id is no orphan, next to a row
\* that is one
C7_Witness ==
    /\ pc = "done"
    /\ orphaned_spans.rows # <<>>
    /\ \E i \in 1..Len(df) :
          /\ df[i].parent_span_id # ""
          /\ i \notin Range(orphaned_spans.rows)
          /\ \A j \in RowsWithId(df, df[i].parent_span_id) :
                df[j].trace_id # df[i].trace_id

\* C8 as stated: the span id of an orphan row is not a span id of the frame.
C8_OrphanIdsNotIndexed ==
    \A i \in Range(orphaned_spans.rows) : df[i].span_id \notin IdsOf(df)

\* C8 amended: the parent_span_id of an orphan row is non-empty and is no
\* span id of the frame, hence no key of the span index.
C8_OrphanParentsNotIndexed ==
    \A i \in Range(orphaned_spans.rows) :
        /\ df[i].parent_span_id # ""
        /\ df[i].parent_span_id \notin IdsOf(df)
        /\ DepthDone => df[i].parent_span_id \notin DOMAIN span_to_info

\* an orphan has been found and the span index built
C8_Witness ==
    /\ pc = "done"
    /\ orphaned_spans.rows # <<>>
    /\ DOMAIN span_to_info # {}

\* the entries of the series for the pair (p, c)
EntriesOf(series, p, c) ==
    {k \in 1..Len(series) :
        series[k].parent_service = p /\ series[k].child_service = c}

\* the rows whose parent is a span id of the frame, the row carrying that id
\* (the last one, as the lookup resolves) being of service p and the row
\* itself of service c
CallRows(d, p, c) ==
    {i \in 1..Len(d) :
        /\ d[i].parent_span_id # ""
        /\ d[i].parent_span_id \in IdsOf(d)
        /\ d[LastRow(d, d[i].parent_span_id)].service_name = p
        /\ d[i].service_name = c}

\* C9: each pair of different services is counted once per row of the child
\* service whose parent resolves to the parent service; a pair of equal
\* services, a root row and an orphan row count nothing.
C9_EdgeCounts ==
    pc = "done" =>
        \A p, c \in Services :
            LET e == EntriesOf(pattern_counts, p, c)
                n == IF p = c THEN 0 ELSE Cardinality(CallRows(df, p, c))
            IN  /\ Cardinality(e) = (IF n = 0 THEN 0 ELSE 1)
                /\ \A k \in e : pattern_counts[k].count = n

\* an edge counted twice, next to a child of its parent's own service
C9_Witness ==
    /\ pc = "done"
    /\ \E k \in 1..Len(pattern_counts) : pattern_counts[k].count = 2
    /\ \E s \in Services : CallRows(df, s, s) # {}

\* position of a service name in lexicographic order
Rank(s) == CHOOSE k \in DOMAIN ServiceNames : ServiceNames[k] = s

\* pair x comes before pair y by parent_service, then child_service
PairBefore(x, y) ==
    \/ Rank(x.parent_service) < Rank(y.parent_service)
    \/ /\ x.parent_service = y.parent_service
       /\ Rank(x.child_service) < Rank(y.child_service)

\* C10: the printed edges are in descending order of count, edges of equal
\* count in lexicographic order of parent_service, then child_service.
C10_SortedWithTieBreak ==
    pc = "done" =>
        \A k \in 1..(Len(printed_patterns) - 1) :
            \/ printed_patterns[k].count > printed_patterns[k + 1].count
            \/ /\ printed_patterns[k].count = printed_patterns[k + 1].count
               /\ PairBefore(printed_patterns[k], printed_patterns[k + 1])

\* C11: the traces with a depth and breadth entry are exactly the traces
\* that own a row with an empty parent_span_id; a trace without such a row
\* has no entry at all.
C11_EntriesAreRootedTraces ==
    DepthDone =>
        /\ DOMAIN trace_depths = {t \in TraceIds : RootsOf(df, t) # {}}
        /\ DOMAIN trace_breadths = DOMAIN trace_depths

\* a rooted trace has its entry next to a trace whose rows all have a parent
C11_Witness ==
    /\ pc = "done"
    /\ DOMAIN trace_depths # {}
    /\ \E i \in 1..Len(df) : df[i].trace_id \notin DOMAIN trace_depths

\* analyze_trace_structure has returned
StructureDone ==
    pc \notin {"analyze_span_relationships", "ZeroDivisionError",
               "analyze_orphaned_spans", "analyze_trace_structure"}

\* C12: the multi-root finding holds exactly the traces with more than one
\* root row, each with its number of root rows.
C12_MultiRootFinding ==
    StructureDone =>
        /\ DOMAIN multi_root_traces
               = {t \in TraceIds : Cardinality(RootsOf(df, t)) > 1}
        /\ \A t \in DOMAIN multi_root_traces :
              multi_root_traces[t] = Cardinality(RootsOf(df, t))

\* a trace with two roots is in the finding, a trace with one root is not
C12_Witness ==
    /\ pc = "done"
    /\ \E t, u \in TraceIds :
          /\ t \in DOMAIN multi_root_traces /\ multi_root_traces[t] = 2
          /\ Cardinality(RootsOf(df, u)) = 1
          /\ u \notin DOMAIN multi_root_traces


\* the second run of the analyses has returned
SecondDone == pc = "done" /\ previous # <<>>

Running ==
    IF pc \in {"for_root", "calculate_depth", "return"}
    THEN "analyze_trace_depth" ELSE pc

\* the analyses of this run that have returned
Returned == {a \in Range(MainOrder) : a # Running /\ a \notin Range(todo)}

\* C14: every analysis is a pure read: none changes the frame, and each
\* returns the same result whichever of the others ran before it, in
\* whatever order
C14_PureReads ==
    /\ [][df' = df]_vars
    /\ [](previous # <<>> =>
            \A a \in Returned : Reports[a] = previous[1][a])

\* the orphan analysis has returned first in the second run, ahead of the
\* analysis that precedes it in main(), and found the orphans again
C14_Witness ==
    /\ previous # <<>>
    /\ Returned = {"analyze_orphaned_spans"}
    /\ ~orphaned_spans.none
    /\ pc = "analyze_cross_service_calls"


\* the number of truncated branches a report of the depth analysis states
Truncations(report) ==
    IF "truncations" \in DOMAIN report THEN report.truncations ELSE 0

\* C15: a cyclic parent chain is a reported finding: the number of
\* truncations the depth analysis reports after a run equals the number of
\* times the walk returned at the cycle guard
C15_TruncationsReported ==
    DepthDone => Truncations(Reports.analyze_trace_depth) = guard_fired


\* the paths through the parent -> child relation of d that start at span s,
\* repeat no span id and stay off the span ids of `path`
SimplePaths(d, s, path) ==
    {p \in SeqsUpTo(SpanIds, Cardinality(SpanIds)) :
        /\ Len(p) >= 1
        /\ p[1] = s
        /\ \A i \in 1..Len(p) : p[i] \notin path
        /\ \A i, j \in 1..Len(p) : i # j => p[i] # p[j]
        /\ \A i \in 1..(Len(p) - 1) : p[i + 1] \in ChildIdsOf(d, p[i])}

\* the number of spans on the longest of them, 0 if there is none
LongestPath(d, s, path) == Max({Len(p) : p \in SimplePaths(d, s, path)} \cup {0})

\* C16: the guard tracks the active path only. Whenever a call of the walk
\* returns to its caller, it returns the number of spans on the longest path
\* from the called span that repeats no span id and stays off the spans
\* between the root and the caller: 0 for a span that is still on that path,
\* the full value for a span that was walked before in a sibling branch.
\* The depth computed from a root is the length of the longest path from the
\* root that repeats no span id.
C16_GuardTracksActivePath ==
    /\ (pc = "return" /\ stack # <<>>) =>
           LET top == stack[Len(stack)]
           IN  ret = LongestPath(df, span_to_children[top.span_id][top.k],
                                 top.visited)
    /\ \A k \in 1..Len(root_results) :
           root_results[k].depth
               = LongestPath(df, df[root_results[k].row].span_id, {})

\* a span that was walked in an earlier sibling branch has been walked again
\* in full, after the guard had cut a cyclic branch in this run
C16_Witness ==
    /\ pc = "return"
    /\ stack # <<>>
    /\ guard_fired > 0
    /\ LET top == stack[Len(stack)]
           children == span_to_children[top.span_id]
       IN  /\ top.k > 1
           /\ \E j \in 1..(top.k - 1) : children[j] = children[top.k]
           /\ ret > 0


\* analyze_trace_depth has built its two maps
IndexBuilt == StructureDone /\ pc # "analyze_trace_depth"

\* the span ids of the records of d that name p as their parent, in the
\* order of the records
ChildrenInOrder(d, p) ==
    LET rows == SelectSeq(d, LAMBDA r : r.parent_span_id = p)
    IN  [k \in 1..Len(rows) |-> rows[k].span_id]

\* C17: the children index holds, for every non-empty parent_span_id of the
\* frame and for nothing else, the span ids of the records that name it as
\* parent, in input order, one entry per record; a parent id that is no
\* record's span_id has its list all the same, and a record with an empty
\* parent_span_id is in no list
C17_ChildrenInInputOrder ==
    IndexBuilt =>
        /\ DOMAIN span_to_children
               = {df[i].parent_span_id : i \in 1..Len(df)} \ {""}
        /\ \A p \in DOMAIN span_to_children :
               span_to_children[p] = ChildrenInOrder(df, p)

\* a parent id that is no record's span_id has two different children, the
\* later record's span id sorting before the earlier one's, next to a root
\* record
C17_Witness ==
    /\ pc = "done"
    /\ \E i \in 1..Len(df) : df[i].parent_span_id = ""
    /\ \E p \in DOMAIN span_to_children :
          /\ \A i \in 1..Len(df) : df[i].span_id # p
          /\ span_to_children[p] = <<"c", "b">>


\* C18: the breadth computed for a root is the number of records whose
\* parent_span_id is the root's span_id; deeper descendants do not count and
\* a root without children has breadth 0
C18_BreadthIsChildCount ==
    \A k \in 1..Len(root_results) :
        root_results[k].breadth
            = Cardinality(ChildRowsOf(df, df[root_results[k].row].span_id))

\* the chain root -> child -> grandchild has been given breadth 1, and the
\* analysis has returned
C18_Witness ==
    /\ pc = "done"
    /\ \E k \in 1..Len(root_results) :
          /\ root_results[k].depth = 3
          /\ root_results[k].breadth = 1
          /\ trace_breadths[df[root_results[k].row].trace_id] = 1


\* the records of d that carry trace id t
OwnRecords(d, t) == SelectSeq(d, LAMBDA r : r.trace_id = t)

\* the root span ids of trace t
RootIdsOf(d, t) == {d[i].span_id : i \in RootsOf(d, t)}

\* C19: the depth and the breadth reported for a trace are those of the
\* trace's own span tree: they are what the records carrying that trace_id
\* give by themselves, whatever records of other traces the frame holds
C19_OwnSpansOnly ==
    DepthDone =>
        \A t \in DOMAIN trace_depths :
            LET own == OwnRecords(df, t)
            IN  /\ trace_depths[t]
                       = Max({LongestPath(own, s, {}) : s \in RootIdsOf(own, t)})
                /\ trace_breadths[t]
                       = Max({Cardinality(ChildRowsOf(own, s)) :
                                 s \in RootIdsOf(own, t)})


\* C20: every trace with an entry has a depth between 1 and the number of
\* distinct span ids of the frame and a breadth between 0 and the number of
\* records with a non-empty parent; the call made for a root never returns
\* 0, the guard returns 0 below a root only
C20_MetricsInRange ==
    /\ \A t \in DOMAIN trace_depths :
          /\ trace_depths[t] \in 1..Cardinality(all_span_ids(df))
          /\ trace_breadths[t] \in 0..Len(ChildRows(df))
    /\ (pc = "return" /\ stack = <<>>) => ret >= 1

\* the guard has returned 0 below a root, and the trace is reported with a
\* depth equal to the number of distinct span ids and a breadth equal to the
\* number of records with a parent
C20_Witness ==
    /\ pc = "done"
    /\ guard_fired > 0
    /\ \E t \in DOMAIN trace_depths :
          /\ trace_depths[t] = Cardinality(all_span_ids(df))
          /\ trace_breadths[t] = Len(ChildRows(df))


\* C21: the tree walk of the example traces comes to an end on every frame,
\* also when duplicate span ids make the id of a root span a descendant of
\* itself: once print_span_tree is called for a root, the call returns to
\* the loop over the roots, and the visualisation runs on to the summary
C21_TreeWalkTerminates ==
    /\ (pc = "print_span_tree" /\ Len(tree_stack) = 1)
           ~> (pc = "tree_return" /\ tree_stack = <<>>)
    /\ (pc = "for_trace") ~> (pc = "summary")

====
